---- MODULE Spec2Model ----
(***************************************************************************)
(* unique_port: a process-wide cursor PORT_IDX (a Mutex<u16>), the setter  *)
(* set_port_index, the allocator get_unique_free_port, the linear bind     *)
(* probe get_free_port and the call-site offset macro generate_start_port. *)
(* Threads call the public operations; the host's set of bound ports is    *)
(* the environment and may change between any two steps.                   *)
(***************************************************************************)
EXTENDS Integers, Sequences, FiniteSets, TLC

(* ---------------------------------------------------------------- bounds *)
\* number of threads calling the library
NThreads == 2
\* number of operations (library calls and host bind changes) in one run
MaxOps == 4

(* ------------------------------------------------------------- constants *)
\* u16::MAX
U16MAX == 65535
\* Mutex::new(1000)
DefaultPort == 1000
\* the offset added by generate_start_port!
StartOffset == 1000

Threads == 1..NThreads
NoThread == 0
U16 == 0..U16MAX

\* Result<u16, String> / Result<(), String>
Ok(p) == [ok |-> TRUE, port |-> p, err |-> ""]
Err(e) == [ok |-> FALSE, port |-> 0, err |-> e]
OkUnit == Ok(0)
NoResult == Err("")
NoFreePort == "Failed to get empty port"
LockFailed == "Failed to aquire the lock"

\* ports other processes bind and release while the library runs
EnvPorts == {DefaultPort, DefaultPort + 1, U16MAX - 1}

\* arguments threads pass to set_port_index besides generated offsets
PortInputs == {DefaultPort, U16MAX - 1, U16MAX}

VARIABLES
    cursor,   \* *PORT_IDX, the u16 inside the mutex
    lock,     \* the thread holding the MutexGuard, or NoThread
    bound,    \* ports on which TcpListener::bind fails (held by someone else)
    pc,       \* each thread's position
    arg,      \* set_port_index: pindex
    start,    \* get_unique_free_port: the range start read from the cursor
    cand,     \* get_free_port: the iterator's next candidate
    probes,   \* get_free_port: the bind attempts made so far, <<port, bind ok>>
    result,   \* get_unique_free_port: the local `result`
    log,      \* the operations in the order of their effect
    poisoned, \* the mutex's poison flag: a thread panicked while holding the guard
    held      \* ports held by the library's own live TcpListeners

vars == <<cursor, lock, bound, pc, arg, start, cand, probes, result, log, poisoned, held>>

\* wrapping u16 addition
AddU16(a, b) == (a + b) % (U16MAX + 1)

\* a call still to make its log entry
InFlight == {t \in Threads : pc[t] # "idle"}
Room == Len(log) + Cardinality(InFlight) < MaxOps

Entry(o, a, r) == [op |-> o, arg |-> a, res |-> r]

Init ==
    /\ cursor = DefaultPort
    /\ lock = NoThread
    /\ bound \in SUBSET EnvPorts
    /\ pc = [t \in Threads |-> "idle"]
    /\ arg = [t \in Threads |-> 0]
    /\ start = [t \in Threads |-> 0]
    /\ cand = [t \in Threads |-> 0]
    /\ probes = [t \in Threads |-> <<>>]
    /\ result = [t \in Threads |-> NoResult]
    /\ log = <<>>
    /\ poisoned = FALSE
    /\ held = {}

(* ---------------------------------------------------------- the host *)
\* another process binds or releases a port
EnvChange(p) ==
    /\ Room
    /\ p \notin held
    /\ bound' = IF p \in bound THEN bound \ {p} ELSE bound \cup {p}
    /\ log' = Append(log, Entry("env", 0, OkUnit))
    /\ UNCHANGED <<cursor, lock, pc, arg, start, cand, probes, result, poisoned, held>>

(* ----------------------------------------------- generate_start_port! *)
\* a u64 is its eight bytes, most significant first; h % m by Horner's rule
RECURSIVE ModBytes(_, _, _)
ModBytes(bytes, m, acc) ==
    IF bytes = <<>> THEN acc
    ELSE ModBytes(Tail(bytes), m, (acc * 256 + Head(bytes)) % m)

ModU64(h, m) == ModBytes(h, m, 0)

\* `as u16`
TruncU16(x) == x % (U16MAX + 1)

\* hasher.finish() of the call sites' names: DefaultHasher is a fixed function
\* of the name, here the values 0, 64534, 64535, 65534 and 2^64 - 1
HashSamples ==
    << <<0, 0, 0, 0, 0, 0, 0, 0>>,
       <<0, 0, 0, 0, 0, 0, 252, 22>>,
       <<0, 0, 0, 0, 0, 0, 252, 23>>,
       <<0, 0, 0, 0, 0, 0, 255, 254>>,
       <<255, 255, 255, 255, 255, 255, 255, 255>> >>

CallSites == DOMAIN HashSamples

\* a hasher keyed anew for every invocation (RandomState) instead of DefaultHasher::new()
DefaultHasherRekeyed(site) ==
    HashSamples[((site + Cardinality({k \in DOMAIN log : log[k].op = "gen"}))
                    % Len(HashSamples)) + 1]

\* DefaultHasher::new() has fixed keys: the hash is a function of the name alone
DefaultHasher(site) == HashSamples[site]

HashRemWrongModulus(h) == TruncU16(ModU64(h, U16MAX))

\* (hasher.finish() % ((u16::MAX - 1000) as u64)) as u16
HashRem(h) == TruncU16(ModU64(h, U16MAX - StartOffset))

\* 1000 + ..., as the integer sum before it is stored in a u16
StartPortSum(h) == StartOffset + HashRem(h)

\* the macro's value
StartPort(h) == TruncU16(StartPortSum(h))

GenerateStartPort(t, site) ==
    /\ pc[t] = "idle"
    /\ Room
    /\ log' = Append(log, Entry("gen", site, Ok(StartPort(DefaultHasher(site)))))
    /\ UNCHANGED <<cursor, lock, bound, pc, arg, start, cand, probes, result, poisoned, held>>

\* the offsets generated so far, which a caller may pass to set_port_index
Generated == {log[i].res.port : i \in {k \in DOMAIN log : log[k].op = "gen"}}

(* ---------------------------------------------------- set_port_index *)
CallSet(t, pindex) ==
    /\ pc[t] = "idle"
    /\ Room
    /\ pc' = [pc EXCEPT ![t] = "set_lock"]
    /\ arg' = [arg EXCEPT ![t] = pindex]
    /\ UNCHANGED <<cursor, lock, bound, start, cand, probes, result, log, poisoned, held>>

AcquireUnguarded(holder) == TRUE

\* PORT_IDX.lock() returns once no other guard is alive
Acquire(holder) == holder = NoThread

LockErrIgnored(flag) == FALSE

\* lock() is Err(PoisonError) exactly when the poison flag is set
LockErr(flag) == flag

GuardLeaked(holder) == holder

\* the MutexGuard is dropped
Release(holder) == NoThread

\* lock(): on a poisoned mutex map_err drops the PoisonError with its guard and
\* `?` returns the error string; otherwise the guard is kept
LockSet(t) ==
    /\ pc[t] = "set_lock"
    /\ Acquire(lock)
    /\ IF LockErr(poisoned)
       THEN /\ lock' = Release(t)
            /\ pc' = [pc EXCEPT ![t] = "idle"]
            /\ log' = Append(log, Entry("set", arg[t], Err(LockFailed)))
            /\ arg' = [arg EXCEPT ![t] = 0]
       ELSE /\ lock' = t
            /\ pc' = [pc EXCEPT ![t] = "set_write"]
            /\ UNCHANGED <<arg, log>>
    /\ UNCHANGED <<cursor, bound, start, cand, probes, result, poisoned, held>>

WriteIndexKeepHigher(pindex, cur) == IF pindex > cur THEN pindex ELSE cur

WriteIndexSkipped(pindex, cur) == cur

\* *port_idx = pindex
WriteIndex(pindex, cur) == pindex

\* the write, Ok(()) and the guard is dropped
FinishSet(t) ==
    /\ pc[t] = "set_write"
    /\ cursor' = WriteIndex(arg[t], cursor)
    /\ lock' = Release(t)
    /\ pc' = [pc EXCEPT ![t] = "idle"]
    /\ log' = Append(log, Entry("set", arg[t], OkUnit))
    /\ arg' = [arg EXCEPT ![t] = 0]
    /\ UNCHANGED <<bound, start, cand, probes, result, poisoned, held>>

(* ----------------------------------------------- get_unique_free_port *)
CallGet(t) ==
    /\ pc[t] = "idle"
    /\ Room
    /\ pc' = [pc EXCEPT ![t] = "get_lock"]
    /\ UNCHANGED <<cursor, lock, bound, arg, start, cand, probes, result, log, poisoned, held>>

\* PORT_IDX.lock(): the error is returned as for set_port_index; otherwise the
\* range *port_idx..u16::MAX is built
LockGet(t) ==
    /\ pc[t] = "get_lock"
    /\ Acquire(lock)
    /\ IF LockErr(poisoned)
       THEN /\ lock' = Release(t)
            /\ pc' = [pc EXCEPT ![t] = "idle"]
            /\ log' = Append(log, Entry("get", 0, Err(LockFailed)))
            /\ UNCHANGED <<start, cand, probes>>
       ELSE /\ lock' = t
            /\ start' = [start EXCEPT ![t] = cursor]
            /\ cand' = [cand EXCEPT ![t] = cursor]
            /\ probes' = [probes EXCEPT ![t] = <<>>]
            /\ pc' = [pc EXCEPT ![t] = "get_scan"]
            /\ UNCHANGED log
    /\ UNCHANGED <<cursor, bound, arg, result, poisoned, held>>

\* TcpListener::bind(127.0.0.1:port) succeeds: no socket holds the port
Bind(port) == port \notin (bound \cup held)

FoundIsErr(bindOk) == ~bindOk

\* the closure's .is_ok()
Found(bindOk) == bindOk

RangeEndInclusive == U16MAX + 1

\* the exclusive end of *port_idx..u16::MAX
RangeEnd == U16MAX

\* what Range::find does with the closure's answer for the candidate
Decide(t, found) ==
    IF found
    THEN /\ result' = [result EXCEPT ![t] = Ok(cand[t])]
         /\ pc' = [pc EXCEPT ![t] = "get_update"]
         /\ UNCHANGED cand
    ELSE /\ cand' = [cand EXCEPT ![t] = cand[t] + 1]
         /\ pc' = [pc EXCEPT ![t] = "get_scan"]
         /\ UNCHANGED result

\* one step of Range::find over the closure of get_free_port: the range is
\* exhausted, or the bind fails and the closure answers, or the bind succeeds
\* and the closure holds a live listener
Probe(t) ==
    /\ pc[t] = "get_scan"
    /\ IF cand[t] >= RangeEnd
       THEN /\ result' = [result EXCEPT ![t] = Err(NoFreePort)]
            /\ pc' = [pc EXCEPT ![t] = "get_update"]
            /\ UNCHANGED <<cand, probes, held>>
       ELSE /\ probes' = [probes EXCEPT ![t] = Append(@, <<cand[t], Bind(cand[t])>>)]
            /\ IF Bind(cand[t])
               THEN /\ held' = held \cup {cand[t]}
                    /\ pc' = [pc EXCEPT ![t] = "get_drop"]
                    /\ UNCHANGED <<cand, result>>
               ELSE /\ Decide(t, Found(FALSE))
                    /\ UNCHANGED held
    /\ UNCHANGED <<cursor, lock, bound, arg, start, log, poisoned>>

ListenerKept(listeners, port) == listeners

\* the temporary TcpListener is dropped at the end of the closure
ReleaseListener(listeners, port) == listeners \ {port}

\* .is_ok() on the live listener, which is then dropped; find gets the answer
DropListener(t) ==
    /\ pc[t] = "get_drop"
    /\ held' = ReleaseListener(held, cand[t])
    /\ Decide(t, Found(TRUE))
    /\ UNCHANGED <<cursor, lock, bound, arg, start, probes, log, poisoned>>

AdvanceToPort(res, cur) == IF res.ok THEN res.port ELSE cur

AdvanceSkipped(res, cur) == cur

AdvanceOnErr(res, cur) == IF res.ok THEN AddU16(res.port, 1) ELSE U16MAX

\* if let Ok(port) = result { *port_idx = port + 1; }
\* (port < u16::MAX on every path of the scan, so the sum fits in a u16)
Advance(res, cur) == IF res.ok THEN AddU16(res.port, 1) ELSE cur

\* port + 1 does not fit in a u16
Overflows(res) == res.ok /\ res.port + 1 > U16MAX

\* the update, `result` is returned and the guard is dropped. Where port + 1
\* overflows, a build with overflow checks panics (the unwinding drops the
\* guard and poisons the mutex) and a build without them wraps.
FinishGet(t) ==
    /\ pc[t] = "get_update"
    /\ \E panics \in (IF Overflows(result[t]) THEN BOOLEAN ELSE {FALSE}) :
           IF panics
           THEN /\ poisoned' = TRUE
                /\ pc' = [pc EXCEPT ![t] = "panicked"]
                /\ log' = Append(log, Entry("panic", start[t], NoResult))
                /\ UNCHANGED cursor
           ELSE /\ cursor' = Advance(result[t], cursor)
                /\ pc' = [pc EXCEPT ![t] = "idle"]
                /\ log' = Append(log, Entry("get", start[t], result[t]))
                /\ UNCHANGED poisoned
    /\ lock' = Release(t)
    /\ start' = [start EXCEPT ![t] = 0]
    /\ cand' = [cand EXCEPT ![t] = 0]
    /\ probes' = [probes EXCEPT ![t] = <<>>]
    /\ result' = [result EXCEPT ![t] = NoResult]
    /\ UNCHANGED <<bound, arg, held>>

Next ==
    \/ \E p \in EnvPorts : EnvChange(p)
    \/ \E t \in Threads : \E v \in PortInputs : CallSet(t, v)
    \/ \E t \in Threads : LockSet(t)
    \/ \E t \in Threads : FinishSet(t)
    \/ \E t \in Threads : CallGet(t)
    \/ \E t \in Threads : LockGet(t)
    \/ \E t \in Threads : Probe(t)
    \/ \E t \in Threads : DropListener(t)
    \/ \E t \in Threads : FinishGet(t)

\* threads racing on the cursor while the host's bound ports change
Spec == Init /\ [][Next]_vars

\* one test composing the macro with the cursor: generate_start_port!(), then
\* set_port_index with a generated offset, then get_unique_free_port
NextOffset ==
    \/ \E site \in CallSites : GenerateStartPort(1, site)
    \/ \E v \in Generated : CallSet(1, v)
    \/ LockSet(1)
    \/ FinishSet(1)
    \/ CallGet(1)
    \/ LockGet(1)
    \/ Probe(1)
    \/ DropListener(1)
    \/ FinishGet(1)

SpecOffset == Init /\ [][NextOffset]_vars

\* the same threads on a mutex that may have been poisoned beforehand (no path
\* of the library panics under the guard, so the flag is set from outside, as
\* a test that simulates a poisoned lock does)
InitPoisoned ==
    /\ cursor = DefaultPort
    /\ lock = NoThread
    /\ bound \in SUBSET EnvPorts
    /\ pc = [t \in Threads |-> "idle"]
    /\ arg = [t \in Threads |-> 0]
    /\ start = [t \in Threads |-> 0]
    /\ cand = [t \in Threads |-> 0]
    /\ probes = [t \in Threads |-> <<>>]
    /\ result = [t \in Threads |-> NoResult]
    /\ log = <<>>
    /\ poisoned \in BOOLEAN
    /\ held = {}

SpecPoisoned == InitPoisoned /\ [][Next]_vars

\* the threads' calls alone, the host's ports as they were at the start and
\* set_port_index called with the last port of the range
NextCalls ==
    \/ \E t \in Threads : CallSet(t, U16MAX - 1)
    \/ \E t \in Threads : LockSet(t)
    \/ \E t \in Threads : FinishSet(t)
    \/ \E t \in Threads : CallGet(t)
    \/ \E t \in Threads : LockGet(t)
    \/ \E t \in Threads : Probe(t)
    \/ \E t \in Threads : DropListener(t)
    \/ \E t \in Threads : FinishGet(t)

\* a thread inside a call runs on: nothing in a critical section blocks
Runs(t) == Probe(t) \/ DropListener(t) \/ FinishGet(t) \/ FinishSet(t)

\* a thread blocked in lock() gets the mutex if it is free again and again
Locks(t) == LockGet(t) \/ LockSet(t)

Fairness == \A t \in Threads : WF_vars(Runs(t)) /\ SF_vars(Locks(t))

SpecFair == Init /\ [][NextCalls]_vars /\ Fairness

(* ------------------------------------------------------------ the log *)
Gets == {i \in DOMAIN log : log[i].op = "get"}
OkGets == {i \in Gets : log[i].res.ok}
Sets == {i \in DOMAIN log : log[i].op = "set"}
Gens == {i \in DOMAIN log : log[i].op = "gen"}
NoSetBetween(i, j) == \A k \in (i + 1)..(j - 1) : log[k].op # "set"
PortOf(i) == log[i].res.port
InCritical(t) == pc[t] \in {"get_scan", "get_drop", "get_update", "set_write"}

(* ------------------------------------------------------------- claims *)
\* C1: successful get_unique_free_port calls with no set_port_index between
\* them return strictly increasing (so pairwise distinct) ports, whatever the
\* host binds or releases meanwhile.
C1_MonotonicUniqueness ==
    \A i \in OkGets : \A j \in OkGets :
        (i < j /\ NoSetBetween(i, j)) => PortOf(i) < PortOf(j)

\* three successful calls in a row with a host change among them, the ports
\* not consecutive
C1_Witness ==
    \E i \in OkGets : \E j \in OkGets :
        /\ i < j
        /\ NoSetBetween(i, j)
        /\ \E k \in (i + 1)..(j - 1) : log[k].op = "env"
        /\ PortOf(j) > PortOf(i) + 1

C3_SerializedDistinct ==
    /\ \A t \in Threads : InCritical(t) => lock = t
    /\ \A t \in Threads : \A u \in Threads :
           (InCritical(t) /\ InCritical(u)) => t = u
    /\ Sets = {} =>
           \A i \in OkGets : \A j \in OkGets : i # j => PortOf(i) # PortOf(j)

\* two calls in flight at once: one has found a port inside its critical
\* section while the other waits for the lock, after an earlier success
C3_Witness ==
    /\ Sets = {}
    /\ OkGets # {}
    /\ \E t \in Threads : \E u \in Threads :
           /\ pc[t] = "get_update"
           /\ result[t].ok
           /\ result[t].port \notin {PortOf(i) : i \in OkGets}
           /\ pc[u] = "get_lock"

\* the ports of a scan's bind attempts
Probed(t) == {probes[t][k][1] : k \in DOMAIN probes[t]}

\* C4: a scan probes start, start + 1, ... in ascending order without a gap
\* and stops at the first bind that succeeds; Ok(p) is returned exactly for
\* that first success, with start <= p < 65535; NoFreePort is returned exactly
\* when every port of [start, 65535) was probed and its bind failed.
C4_FirstFitAscending ==
    \A t \in Threads :
        pc[t] \in {"get_scan", "get_update"} =>
            /\ \A k \in DOMAIN probes[t] : probes[t][k][1] = start[t] + k - 1
            /\ \A k \in DOMAIN probes[t] : k < Len(probes[t]) => ~probes[t][k][2]
            /\ pc[t] = "get_scan" => \A k \in DOMAIN probes[t] : ~probes[t][k][2]
            /\ (pc[t] = "get_update" /\ result[t].ok) =>
                   /\ probes[t] # <<>>
                   /\ probes[t][Len(probes[t])] = <<result[t].port, TRUE>>
                   /\ start[t] <= result[t].port
                   /\ result[t].port < U16MAX
            /\ (pc[t] = "get_update" /\ ~result[t].ok) =>
                   /\ result[t] = Err(NoFreePort)
                   /\ \A k \in DOMAIN probes[t] : ~probes[t][k][2]
                   /\ start[t] + Len(probes[t]) >= U16MAX

\* a scan that passed two bound ports and returned the third
C4_Witness ==
    \E t \in Threads :
        /\ pc[t] = "get_update"
        /\ result[t] = Ok(start[t] + 2)
        /\ Len(probes[t]) = 3

\* C5: a get_unique_free_port that directly follows set_port_index(P) returns,
\* when it succeeds, a port >= P, and returns exactly P when P < 65535 and the
\* host does not hold P, whatever the cursor was and whatever was returned
\* before.
C5_ResetThenGet ==
    \A i \in Sets :
        (i + 1) \in Gets =>
            /\ log[i + 1].res.ok => PortOf(i + 1) >= log[i].arg
            /\ (i + 1 = Len(log) /\ log[i].arg < U16MAX /\ Bind(log[i].arg)) =>
                   log[i + 1].res = Ok(log[i].arg)

\* the cursor had moved past P before set_port_index(P), and P is returned again
C5_Witness ==
    \E i \in Sets :
        /\ (i - 1) \in OkGets
        /\ (i + 1) \in OkGets
        /\ log[i].arg <= PortOf(i - 1)
        /\ PortOf(i + 1) = log[i].arg

\* C6: set_port_index(P); get_unique_free_port(); set_port_index(P);
\* get_unique_free_port(), with no host change and no other operation taking
\* effect in between, gives the same result (port or error) from both calls.
C6_IdempotentReset ==
    \A i \in Sets :
        (/\ i + 3 <= Len(log)
         /\ log[i + 1].op = "get"
         /\ log[i + 2] = log[i]
         /\ log[i + 3].op = "get") => log[i + 1].res = log[i + 3].res

\* the four calls made, P itself held by the host so that the scan moved on
C6_Witness ==
    \E i \in Sets :
        /\ i + 3 <= Len(log)
        /\ log[i + 1].op = "get"
        /\ log[i + 2] = log[i]
        /\ log[i + 3].op = "get"
        /\ log[i + 3].res.ok
        /\ PortOf(i + 3) > log[i].arg

\* C7: after set_port_index(65535) every get_unique_free_port fails with
\* NoFreePort, whatever the host holds, until set_port_index installs a lower
\* value.
C7_RangeExhaustion ==
    \A i \in Sets : \A j \in Gets :
        (/\ i < j
         /\ log[i].arg = U16MAX
         /\ \A k \in (i + 1)..(j - 1) : log[k].op = "set" => log[k].arg = U16MAX)
        => log[j].res = Err(NoFreePort)

\* set_port_index(65535), then two failing calls with a host change between
C7_Witness ==
    \E i \in Sets :
        /\ log[i].arg = U16MAX
        /\ i + 3 <= Len(log)
        /\ log[i + 1].op = "get"
        /\ log[i + 2].op = "env"
        /\ log[i + 3].op = "get"

\* C8: the step in which get_unique_free_port returns NoFreePort leaves the
\* cursor at the value the call read and releases the lock.
C8_FailureLeavesCursor ==
    [][\A t \in Threads :
          (pc[t] = "get_update" /\ ~result[t].ok /\ pc'[t] = "idle") =>
              /\ cursor' = cursor
              /\ cursor' = start[t]
              /\ lock' = NoThread]_vars

\* a scan from 65534 failed (the host holds 65534); the cursor is still 65534
\* and the lock is free for the thread waiting on it
C8_Witness ==
    /\ log # <<>>
    /\ log[Len(log)] = Entry("get", U16MAX - 1, Err(NoFreePort))
    /\ cursor = U16MAX - 1
    /\ lock = NoThread
    /\ \E t \in Threads : pc[t] = "get_lock" /\ ENABLED LockGet(t)

\* C9: every generated offset lies in [1000, 65535) and equals the integer sum
\* 1000 + (h % 64535), so the u16 addition did not overflow.
C9_OffsetInRange ==
    \A i \in Gens :
        /\ PortOf(i) >= StartOffset
        /\ PortOf(i) < U16MAX
        /\ PortOf(i) = StartPortSum(DefaultHasher(log[i].arg))

\* the largest remainder, 64534, gives the largest offset, 65534, and the hash
\* 2^64 - 1 has been mapped too
C9_Witness ==
    /\ \E i \in Gens : PortOf(i) = U16MAX - 1
    /\ \E i \in Gens : log[i].arg = Len(HashSamples)

\* C10 as documented: every generated offset is higher than 1000 and less
\* than u16::MAX - 1000.
C10_DocumentedRange ==
    \A i \in Gens : PortOf(i) > 1000 /\ PortOf(i) < U16MAX - 1000

C12_PoisonedLockIsAnError ==
    poisoned =>
        /\ \A i \in Sets \cup Gets : log[i].res = Err(LockFailed)
        /\ \A t \in Threads :
               /\ pc[t] \in {"idle", "set_lock", "get_lock"}
               /\ probes[t] = <<>>
        /\ held = {}
        /\ lock = NoThread
        /\ cursor = DefaultPort

\* both public functions have returned the lock error, get_unique_free_port
\* with a bindable port at the cursor
C12_Witness ==
    /\ poisoned
    /\ \E i \in Sets : log[i].res = Err(LockFailed)
    /\ \E i \in Gets : log[i].res = Err(LockFailed)
    /\ Bind(cursor)

\* C13: the step that ends a successful get_unique_free_port returning p
\* leaves the cursor at the integer p + 1, above the value the call read and
\* at most 65535: it neither wraps to 0 nor panics under the guard.
C13_AdvanceFits ==
    [][\A t \in Threads :
          (pc[t] = "get_update" /\ result[t].ok /\ pc'[t] # "get_update") =>
              /\ cursor' = result[t].port + 1
              /\ cursor' > start[t]
              /\ cursor' <= U16MAX
              /\ pc'[t] = "idle"
              /\ ~poisoned']_vars

\* the last port of the range, 65534, has been returned and the cursor is 65535
C13_Witness ==
    /\ log # <<>>
    /\ log[Len(log)].op = "get"
    /\ log[Len(log)].res = Ok(U16MAX - 1)
    /\ cursor = U16MAX
    /\ ~poisoned

\* the cursor after the first n operations of the log, run one after another
RECURSIVE CursorAfter(_)
CursorAfter(n) ==
    IF n = 0 THEN DefaultPort
    ELSE IF log[n].op = "set" /\ log[n].res.ok THEN log[n].arg
    ELSE IF log[n].op = "get" /\ log[n].res.ok THEN log[n].res.port + 1
    ELSE CursorAfter(n - 1)

InAllocation(t) == pc[t] \in {"get_scan", "get_drop", "get_update"}

\* C14: the cursor is not written between an allocation's read of it and the
\* allocation's own write, and the operations, racing or not, behave as if run
\* one after another in the order of the log: the cursor is the one that
\* sequential run leaves, and every allocation scanned from the cursor its
\* predecessors left.
C14_AtomicAgainstSet ==
    /\ \A t \in Threads : InAllocation(t) => cursor = start[t]
    /\ cursor = CursorAfter(Len(log))
    /\ \A i \in Gets :
           log[i].res.err # LockFailed =>
               /\ log[i].arg = CursorAfter(i - 1)
               /\ log[i].res.ok => log[i].arg <= PortOf(i)

\* set_port_index(v), v not the cursor, waits for the lock that a scanning
\* allocation holds
C14_Witness ==
    \E t \in Threads : \E u \in Threads :
        /\ InAllocation(t)
        /\ probes[t] # <<>>
        /\ pc[u] = "set_lock"
        /\ arg[u] # cursor

C16_NoPortReserved ==
    /\ held = {cand[t] : t \in {u \in Threads : pc[u] = "get_drop"}}
    /\ held \cap bound = {}
    /\ \A t \in Threads :
           pc[t] = "get_update" =>
               /\ held = {}
               /\ result[t].ok => result[t].port \notin held

\* a second allocation has found its port after a failed probe: each call
\* opened a listener and none is left
C16_Witness ==
    /\ OkGets # {}
    /\ held = {}
    /\ \E t \in Threads :
           /\ pc[t] = "get_update"
           /\ result[t].ok
           /\ Len(probes[t]) >= 2

====
